---- MODULE Spec2Model ----
(***************************************************************************)
(* just-expression: transform(ast, params, global, enables) walks an      *)
(* ESTree expression, rejects every node the switches do not admit, keeps *)
(* a scope list of bound names and rewrites free identifiers into         *)
(* property accesses on the global binding.                               *)
(*                                                                         *)
(* A node is a record with the ESTree field names.  A walk returns the    *)
(* record Ok(node, same, scope) or Throw(...): `same` is the JavaScript   *)
(* reference comparison (result === input), `scope` is the content of the *)
(* state array when the walk returns or throws.                           *)
(***************************************************************************)
EXTENDS Integers, Sequences, FiniteSets, TLC

\* ------------------------------------------------------------------ bounds
MaxDepth == 2
MaxParams == 2

\* ------------------------------------------------------------------- nodes
Null == [type |-> "null"]
NULL == "<null>"

Id(n) == [type |-> "Identifier", name |-> n]
Lit == [type |-> "Literal", raw |-> "1"]
This == [type |-> "ThisExpression"]
Leaf(t) == [type |-> t]
Unary(op, x) == [type |-> "UnaryExpression", operator |-> op, argument |-> x]
Binary(op, l, r) == [type |-> "BinaryExpression", operator |-> op, left |-> l, right |-> r]
Update(op, x) == [type |-> "UpdateExpression", operator |-> op, argument |-> x]
Assign(op, l, r) == [type |-> "AssignmentExpression", operator |-> op, left |-> l, right |-> r]
Call(f, args) == [type |-> "CallExpression", callee |-> f, arguments |-> args]
Array(es) == [type |-> "ArrayExpression", elements |-> es]
Object(ps) == [type |-> "ObjectExpression", properties |-> ps]
Prop(k, v, c) == [type |-> "Property", key |-> k, value |-> v, computed |-> c]
Member(o, p, c) == [type |-> "MemberExpression", object |-> o, property |-> p,
                    computed |-> c, optional |-> FALSE]
Arrow(ps, b) == [type |-> "ArrowFunctionExpression", params |-> ps, body |-> b]
Block == [type |-> "BlockStatement", body |-> <<>>]
ObjectPattern(ps) == [type |-> "ObjectPattern", properties |-> ps]
ArrayPattern(es) == [type |-> "ArrayPattern", elements |-> es]
RestElement(x) == [type |-> "RestElement", argument |-> x]
AssignmentPattern(l, r) == [type |-> "AssignmentPattern", left |-> l, right |-> r]

\* ------------------------------------------------------------------ isIdent
\* The characters of each name the model uses (a TLA+ string is atomic).
Spell(name) ==
  CASE name = "a" -> <<"a">>
    [] name = "b" -> <<"b">>
    [] name = "c" -> <<"c">>
    [] name = "g" -> <<"g">>
    [] name = "_" -> <<"_">>
    [] name = "a1" -> <<"a", "1">>
    [] name = "1a" -> <<"1", "a">>
    [] name = "a-b" -> <<"a", "-", "b">>
    [] name = "if" -> <<"i", "f">>
    [] name = "this" -> <<"t", "h", "i", "s">>
    [] name = "" -> <<>>
    [] OTHER -> <<"-">>

ID_Start == {"a", "b", "c", "g", "i", "f", "t", "h", "s"}
ID_Continue == ID_Start \cup {"1", "_"}

IDENTIFIER_REGEX(name) ==
  LET s == Spell(name) IN
  /\ Len(s) >= 1
  /\ s[1] \in {"$", "_"} \cup ID_Start
  /\ \A i \in 2..Len(s) : s[i] \in {"$"} \cup ID_Continue

reservedIdentifiers == {"if", "this", "new", "delete", "typeof", "in", "instanceof"}

isIdent(name) == IDENTIFIER_REGEX(name) /\ name \notin reservedIdentifiers

\* ------------------------------------------------------------------ results
NoErr == [name |-> "", msg |-> "", at |-> Null, entry |-> <<>>]
Ok(node, same, scope) ==
  [ok |-> TRUE, node |-> node, same |-> same, scope |-> scope, err |-> NoErr]
Throw(name, msg, at, entry, scope) ==
  [ok |-> FALSE, node |-> Null, same |-> FALSE, scope |-> scope,
   err |-> [name |-> name, msg |-> msg, at |-> at, entry |-> entry]]

includes(list, x) == \E i \in 1..Len(list) : list[i] = x

\* ------------------------------------------------------- extractDeclaration
\* Returns [ok, scope, name, msg]: scope keeps what was pushed before a throw.
RECURSIVE extractDeclaration(_, _)
RECURSIVE extractProperties(_, _, _)
RECURSIVE extractElements(_, _, _)

\* (mutation: the key of an object-pattern entry is scanned, not its value)
extractPropertiesKey(ps, i, scope) ==
  IF i > Len(ps) THEN [ok |-> TRUE, scope |-> scope, name |-> "", msg |-> ""]
  ELSE LET p == ps[i]
           r == CASE p.type = "RestElement" -> extractDeclaration(p.argument, scope)
                  [] p.type = "Property" -> extractDeclaration(p.key, scope)
                  [] OTHER -> [ok |-> FALSE, scope |-> scope, name |-> "SyntaxError",
                               msg |-> "unknown ObjectPattern syntax"]
       IN IF r.ok THEN extractProperties(ps, i + 1, r.scope) ELSE r

extractProperties(ps, i, scope) ==
  IF i > Len(ps) THEN [ok |-> TRUE, scope |-> scope, name |-> "", msg |-> ""]
  ELSE LET p == ps[i]
           r == CASE p.type = "RestElement" -> extractDeclaration(p.argument, scope)
                  [] p.type = "Property" -> extractDeclaration(p.value, scope)
                  [] OTHER -> [ok |-> FALSE, scope |-> scope, name |-> "SyntaxError",
                               msg |-> "unknown ObjectPattern syntax"]
       IN IF r.ok THEN extractProperties(ps, i + 1, r.scope) ELSE r

extractElements(es, i, scope) ==
  IF i > Len(es) THEN [ok |-> TRUE, scope |-> scope, name |-> "", msg |-> ""]
  ELSE LET e == es[i]
           r == IF e # Null THEN extractDeclaration(e, scope)
                ELSE [ok |-> TRUE, scope |-> scope, name |-> "", msg |-> ""]
       IN IF r.ok THEN extractElements(es, i + 1, r.scope) ELSE r

extractDeclaration(pattern, scope) ==
  CASE pattern.type = "Identifier" ->
         [ok |-> TRUE, scope |-> Append(scope, pattern.name), name |-> "", msg |-> ""]
    [] pattern.type = "ObjectPattern" -> extractProperties(pattern.properties, 1, scope)
    [] pattern.type = "ArrayPattern" -> extractElements(pattern.elements, 1, scope)
    [] pattern.type = "RestElement" -> extractDeclaration(pattern.argument, scope)
    [] pattern.type = "AssignmentPattern" -> extractDeclaration(pattern.left, scope)
    [] OTHER -> [ok |-> FALSE, scope |-> scope, name |-> "Error",
                 msg |-> "unknown Pattern syntax"]

\* ------------------------------------------------------------------ enables
\* The options object: the switches given as true and those given as false;
\* a switch in neither is omitted and takes its destructuring default.
Switches == {"this", "call", "arrow", "update", "inspect"}

\* (mutation: every omitted switch counts as off)
SwitchDefaultAllOff(k) == FALSE

SwitchDefault(k) == k \in {"call", "arrow"}

\* (mutation: the given flag is read negated)
enableNegated(opts, k) ==
  IF k \in opts.on THEN FALSE ELSE IF k \in opts.off THEN TRUE ELSE SwitchDefault(k)

enable(opts, k) ==
  IF k \in opts.on THEN TRUE ELSE IF k \in opts.off THEN FALSE ELSE SwitchDefault(k)

\* ------------------------------------------------------------------- ENTER
\* "" when the node is admitted, else the message of the SyntaxError thrown.
test(cond, err) == IF cond THEN "" ELSE err

ENTER(expr, opts) ==
  CASE expr.type \in {"Identifier", "Literal", "ArrayExpression", "ObjectExpression",
                      "MemberExpression", "ChainExpression", "LogicalExpression",
                      "SequenceExpression", "ConditionalExpression", "TemplateLiteral"} -> ""
    [] expr.type = "ArrowFunctionExpression" -> test(enable(opts, "arrow"), "disabled")
    [] expr.type \in {"UnaryExpression", "BinaryExpression"} ->
         test((enable(opts, "update") \/ expr.operator # "delete")
              /\ (enable(opts, "inspect")
                  \/ (/\ expr.operator # "typeof"
                      /\ expr.operator # "in"
                      /\ expr.operator # "instanceof")),
              "disabled")
    [] expr.type \in {"UpdateExpression", "AssignmentExpression"} ->
         test(enable(opts, "update"), "disabled")
    [] expr.type \in {"NewExpression", "CallExpression", "TaggedTemplateExpression"} ->
         test(enable(opts, "call"), "disabled")
    [] expr.type = "ThisExpression" -> test(enable(opts, "this"), "disabled")
    [] expr.type \in {"FunctionExpression", "ClassExpression", "MetaProperty",
                      "YieldExpression", "AwaitExpression", "ImportExpression"} ->
         test(FALSE, "not supported")
    [] expr.type \in {"Property", "ObjectPattern", "ArrayPattern", "RestElement",
                      "AssignmentPattern", "SpreadElement", "TemplateElement"} -> ""
    [] OTHER -> "unknown node type"

\* -------------------------------------------------------------------- walk
\* cx is what the handlers close over: [global, opts].
RECURSIVE walk(_, _, _)
RECURSIVE walkList(_, _, _, _)
RECURSIVE walkKeys(_, _, _, _, _, _)

splice(state, start) == SubSeq(state, 1, IF start < Len(state) THEN start ELSE Len(state))

RECURSIVE extractParams(_, _, _)
extractParams(ps, i, state) ==
  IF i > Len(ps) THEN [ok |-> TRUE, scope |-> state, name |-> "", msg |-> ""]
  ELSE LET r == extractDeclaration(ps[i], state)
       IN IF r.ok THEN extractParams(ps, i + 1, r.scope) ELSE r

\* (mutation: the names pushed for the parameters are never removed)
ArrowNoSplice(node, state, cx) ==
  IF node.body.type = "BlockStatement"
  THEN Throw("SyntaxError", "block statement", node, state, state)
  ELSE LET d == extractParams(node.params, 1, state)
       IN IF ~d.ok THEN Throw(d.name, d.msg, node, state, d.scope)
          ELSE LET body == walk(node.body, d.scope, cx)
               IN IF ~body.ok THEN body
                  ELSE IF body.same
                       THEN Ok(node, TRUE, body.scope)
                       ELSE Ok([node EXCEPT !.body = body.node], FALSE, body.scope)

\* (mutation: the arrow is copied whether or not its body changed)
ArrowAlwaysCopy(node, state, cx) ==
  IF node.body.type = "BlockStatement"
  THEN Throw("SyntaxError", "block statement", node, state, state)
  ELSE LET length == Len(state)
           d == extractParams(node.params, 1, state)
       IN IF ~d.ok THEN Throw(d.name, d.msg, node, state, d.scope)
          ELSE LET body == walk(node.body, d.scope, cx)
               IN IF ~body.ok THEN body
                  ELSE Ok([node EXCEPT !.body = body.node], FALSE,
                          splice(body.scope, length))

\* (mutation: the parameters are scanned before the body is looked at)
ArrowScanFirst(node, state, cx) ==
  LET length == Len(state)
      d == extractParams(node.params, 1, state)
  IN IF ~d.ok THEN Throw(d.name, d.msg, node, state, d.scope)
     ELSE IF node.body.type = "BlockStatement"
     THEN Throw("SyntaxError", "block statement", node, state, d.scope)
     ELSE LET body == walk(node.body, d.scope, cx)
          IN IF ~body.ok THEN body
             ELSE IF body.same
                  THEN Ok(node, TRUE, splice(body.scope, length))
                  ELSE Ok([node EXCEPT !.body = body.node], FALSE,
                          splice(body.scope, length))

ArrowFunctionExpression(node, state, cx) ==
  IF node.body.type = "BlockStatement"
  THEN Throw("SyntaxError", "block statement", node, state, state)
  ELSE LET length == Len(state)
           d == extractParams(node.params, 1, state)
       IN IF ~d.ok THEN Throw(d.name, d.msg, node, state, d.scope)
          ELSE LET body == walk(node.body, d.scope, cx)
               IN IF ~body.ok THEN body
                  ELSE IF body.same
                       THEN Ok(node, TRUE, splice(body.scope, length))
                       ELSE Ok([node EXCEPT !.body = body.node], FALSE,
                               splice(body.scope, length))

\* (mutation: the property is walked whether or not the access is computed)
MemberAlwaysVisit(node, state, cx) ==
  IF node.object.type = "Super"
  THEN Throw("SyntaxError", "Super", node, state, state)
  ELSE IF node.property.type = "PrivateIdentifier"
  THEN Throw("SyntaxError", "PrivateIdentifier", node, state, state)
  ELSE LET object == walk(node.object, state, cx)
       IN IF ~object.ok THEN object
          ELSE LET property == walk(node.property, object.scope, cx)
               IN IF ~property.ok THEN property
                  ELSE IF object.same /\ property.same
                       THEN Ok(node, TRUE, property.scope)
                       ELSE Ok([node EXCEPT !.object = object.node,
                                            !.property = property.node],
                               FALSE, property.scope)

\* (mutation: the member access is copied whether or not a child changed)
MemberAlwaysCopy(node, state, cx) ==
  IF node.object.type = "Super"
  THEN Throw("SyntaxError", "Super", node, state, state)
  ELSE IF node.property.type = "PrivateIdentifier"
  THEN Throw("SyntaxError", "PrivateIdentifier", node, state, state)
  ELSE LET object == walk(node.object, state, cx)
       IN IF ~object.ok THEN object
          ELSE LET property == IF node.computed THEN walk(node.property, object.scope, cx)
                               ELSE Ok(node.property, TRUE, object.scope)
               IN IF ~property.ok THEN property
                  ELSE Ok([node EXCEPT !.object = object.node,
                                       !.property = property.node],
                          FALSE, property.scope)

MemberExpression(node, state, cx) ==
  IF node.object.type = "Super"
  THEN Throw("SyntaxError", "Super", node, state, state)
  ELSE IF node.property.type = "PrivateIdentifier"
  THEN Throw("SyntaxError", "PrivateIdentifier", node, state, state)
  ELSE LET object == walk(node.object, state, cx)
       IN IF ~object.ok THEN object
          ELSE LET property == IF node.computed THEN walk(node.property, object.scope, cx)
                               ELSE Ok(node.property, TRUE, object.scope)
               IN IF ~property.ok THEN property
                  ELSE IF object.same /\ property.same
                       THEN Ok(node, TRUE, property.scope)
                       ELSE Ok([node EXCEPT !.object = object.node,
                                            !.property = property.node],
                               FALSE, property.scope)

Property(node, state, cx) ==
  IF node.key.type = "PrivateIdentifier"
  THEN Throw("SyntaxError", "PrivateIdentifier", node, state, state)
  ELSE LET key == IF node.computed THEN walk(node.key, state, cx)
                  ELSE Ok(node.key, TRUE, state)
       IN IF ~key.ok THEN key
          ELSE LET value == walk(node.value, key.scope, cx)
               IN IF ~value.ok THEN value
                  ELSE IF key.same /\ value.same
                       THEN Ok(node, TRUE, value.scope)
                       ELSE Ok([node EXCEPT !.key = key.node, !.value = value.node],
                               FALSE, value.scope)

\* (mutation: the synthesized access is computed, g[x])
IdentifierComputed(node, state, cx) ==
  IF includes(state, node.name) THEN Ok(node, TRUE, state)
  ELSE IF cx.global = NULL
  THEN Throw("ReferenceError", "not defined", node, state, state)
  ELSE Ok([type |-> "MemberExpression",
           computed |-> TRUE,
           optional |-> FALSE,
           object |-> IF cx.global = "this" THEN [type |-> "ThisExpression"]
                      ELSE [type |-> "Identifier", name |-> cx.global],
           property |-> [type |-> "Identifier", name |-> node.name]],
          FALSE, state)

Identifier(node, state, cx) ==
  IF includes(state, node.name) THEN Ok(node, TRUE, state)
  ELSE IF cx.global = NULL
  THEN Throw("ReferenceError", "not defined", node, state, state)
  ELSE Ok([type |-> "MemberExpression",
           computed |-> FALSE,
           optional |-> FALSE,
           object |-> IF cx.global = "this" THEN [type |-> "ThisExpression"]
                      ELSE [type |-> "Identifier", name |-> cx.global],
           property |-> [type |-> "Identifier", name |-> node.name]],
          FALSE, state)

\* The walker's own descent into a node that has no handler: every child
\* field in order, a list field element by element (holes skipped); the node
\* is rebuilt only when a child came back as another object.
ListKeys == {"elements", "properties", "expressions", "quasis", "arguments"}

ChildKeys(type) ==
  CASE type \in {"ArrayExpression", "ArrayPattern"} -> <<"elements">>
    [] type \in {"ObjectExpression", "ObjectPattern"} -> <<"properties">>
    [] type = "ChainExpression" -> <<"expression">>
    [] type \in {"LogicalExpression", "BinaryExpression", "AssignmentExpression",
                 "AssignmentPattern"} -> <<"left", "right">>
    [] type = "SequenceExpression" -> <<"expressions">>
    [] type = "ConditionalExpression" -> <<"test", "consequent", "alternate">>
    [] type = "TemplateLiteral" -> <<"quasis", "expressions">>
    [] type \in {"UnaryExpression", "UpdateExpression", "SpreadElement",
                 "RestElement"} -> <<"argument">>
    [] type \in {"CallExpression", "NewExpression"} -> <<"callee", "arguments">>
    [] type = "TaggedTemplateExpression" -> <<"tag", "quasi">>
    [] OTHER -> <<>>

\* Returns Ok(list, same, scope) with `node` holding the walked list.
walkList(list, i, state, cx) ==
  IF i > Len(list) THEN Ok(list, TRUE, state)
  ELSE IF list[i] = Null THEN walkList(list, i + 1, state, cx)
  ELSE LET r == walk(list[i], state, cx)
       IN IF ~r.ok THEN r
          ELSE LET rest == walkList([list EXCEPT ![i] = r.node], i + 1, r.scope, cx)
               IN IF ~rest.ok THEN rest
                  ELSE Ok(rest.node, r.same /\ rest.same, rest.scope)

walkKeys(node, same, keys, i, state, cx) ==
  IF i > Len(keys) THEN Ok(node, same, state)
  ELSE LET k == keys[i]
           r == IF k \in ListKeys THEN walkList(node[k], 1, state, cx)
                ELSE walk(node[k], state, cx)
       IN IF ~r.ok THEN r
          ELSE walkKeys(IF r.same THEN node ELSE [node EXCEPT ![k] = r.node],
                        same /\ r.same, keys, i + 1, r.scope, cx)

walkChildren(node, state, cx) ==
  walkKeys(node, TRUE, ChildKeys(node.type), 1, state, cx)

walk(node, state, cx) ==
  LET rejected == ENTER(node, cx.opts)
  IN IF rejected # "" THEN Throw("SyntaxError", rejected, node, state, state)
     ELSE CASE node.type = "ArrowFunctionExpression" -> ArrowFunctionExpression(node, state, cx)
            [] node.type = "MemberExpression" -> MemberExpression(node, state, cx)
            [] node.type = "Property" -> Property(node, state, cx)
            [] node.type = "Identifier" -> Identifier(node, state, cx)
            [] OTHER -> walkChildren(node, state, cx)

\* ---------------------------------------------------------------- transform
Min(S) == CHOOSE x \in S : \A y \in S : x <= y

\* (mutation: a repeated name is not looked for)
checkParamsNoDuplicate(params, global) ==
  LET bad == {i \in 1..Len(params) : ~isIdent(params[i])}
  IN IF bad # {} THEN "not a valid identifier"
     ELSE IF global # NULL /\ global # "this" /\ ~includes(params, global)
     THEN "global not in parameter list"
     ELSE ""

checkParams(params, global) ==
  LET bad == {i \in 1..Len(params) :
                \/ ~isIdent(params[i])
                \/ \E j \in (i + 1)..Len(params) : params[j] = params[i]}
  IN IF bad # {}
     THEN (IF ~isIdent(params[Min(bad)]) THEN "not a valid identifier"
           ELSE "duplicate parameter name")
     ELSE IF global # NULL /\ global # "this" /\ ~includes(params, global)
     THEN "global not in parameter list"
     ELSE ""

\* The traversal's state defaults to the params array itself, so the scope
\* field of the result is the content of the caller's array afterwards.
transform(ast, params, global, opts) ==
  LET invalid == checkParams(params, global)
  IN IF invalid # "" THEN Throw("SyntaxError", invalid, Null, params, params)
     ELSE walk(ast, params, [global |-> global, opts |-> opts])

\* ------------------------------------------------------------------ inputs
Leaves == {Id("a"), Id("b"), Id("g"), Lit, This, Leaf("FunctionExpression")}

\* ({a: {a: [, a], ...c}, c: b = 2})
ComplexPattern ==
  ObjectPattern(<<
    Prop(Id("a"), ObjectPattern(<<Prop(Id("a"), ArrayPattern(<<Null, Id("a")>>), FALSE),
                                  RestElement(Id("c"))>>), FALSE),
    Prop(Id("c"), AssignmentPattern(Id("b"), Lit), FALSE)>>)

ParamLists ==
  { <<>>, <<Id("a")>>, <<Id("g")>>, <<Id("a"), RestElement(Id("b"))>>,
    <<AssignmentPattern(Id("a"), Id("b"))>>,
    <<AssignmentPattern(Id("a"), Leaf("FunctionExpression"))>>,
    <<ComplexPattern>>,
    <<Id("b"), Lit>>,
    <<ObjectPattern(<<Prop(Id("b"), Id("b"), FALSE), Lit>>)>> }

Wrap(x) ==
  { Unary("delete", x), Unary("typeof", x), Unary("-", x), Binary("+", x, Id("b")),
    Binary("in", Lit, x), Update("++", x), Assign("=", Id("a"), x), Call(x, <<Id("b")>>),
    Member(x, Id("b"), FALSE), Member(Id("a"), x, TRUE),
    Object(<<Prop(Id("b"), x, FALSE)>>), Object(<<Prop(x, Lit, TRUE)>>),
    Array(<<x, Id("b")>>) }
  \cup { Arrow(ps, x) : ps \in ParamLists }

Fixed ==
  { Arrow(<<Id("a")>>, Block), Member(Leaf("Super"), Id("b"), FALSE),
    Member(Id("a"), Leaf("PrivateIdentifier"), FALSE),
    Object(<<Prop(Leaf("PrivateIdentifier"), Lit, FALSE)>>) }

WrapOuter(x) ==
  { Arrow(<<Id("a")>>, x), Arrow(<<Id("g")>>, x), Member(x, Id("b"), FALSE),
    Array(<<x, Id("b")>>), Array(<<Null, Id("a"), x>>), Call(x, <<>>),
    Object(<<Prop(x, Id("a"), TRUE)>>) }

RECURSIVE Trees(_)
Trees(d) ==
  IF d = 0 THEN Leaves
  ELSE IF d = 1 THEN Leaves \cup Fixed \cup UNION { Wrap(x) : x \in Leaves }
  ELSE Trees(d - 1) \cup UNION { WrapOuter(x) : x \in Trees(d - 1) }

NoOpts == [on |-> {}, off |-> {}]
AllOn == [on |-> Switches, off |-> {}]
TotalOpts == { [on |-> s, off |-> Switches \ s] : s \in SUBSET Switches }
AnyOpts == { [on |-> s, off |-> t] : s \in SUBSET Switches, t \in SUBSET Switches } \ { o \in [on : SUBSET Switches, off : SUBSET Switches] : o.on \cap o.off # {} }

Input(t, ps, g, o) == [ast |-> t, params |-> ps, global |-> g, opts |-> o]

\* Parameter lists with the global binding they are used with.
Bindings ==
  { <<(<<>>), NULL>>, <<(<<"a">>), NULL>>, <<(<<>>), "this">>, <<(<<"g">>), "g">>,
    <<(<<"a", "g">>), "g">> }

ParamNames == {"a", "g", "_", "1a", "if", "a-b"}

RECURSIVE Lists(_)
Lists(n) ==
  IF n = 0 THEN {<<>>}
  ELSE Lists(n - 1) \cup { Append(l, x) : l \in Lists(n - 1), x \in ParamNames }

\* Whole expressions under the documented baseline and with every switch on.
DeepInputs ==
  { Input(t, b[1], b[2], o) : t \in Trees(MaxDepth), b \in Bindings, o \in {NoOpts, AllOn} }

\* Every parameter list and global binding, valid or not.
ConfigInputs ==
  { Input(t, ps, g, NoOpts) :
      t \in {Id("a"), Leaf("FunctionExpression"), Arrow(<<Id("a")>>, Id("b"))},
      ps \in Lists(MaxParams), g \in {NULL, "this", "g", "a"} }

\* Every configuration of the five switches.
SwitchInputs ==
  { Input(t, b[1], b[2], o) :
      t \in Trees(1), b \in { <<(<<"a">>), NULL>>, <<(<<"g">>), "g">>, <<(<<>>), "this">> },
      o \in TotalOpts }

Inputs == DeepInputs \cup ConfigInputs \cup SwitchInputs

\* ------------------------------------------------------------ state machine
VARIABLES
  ast,      \* the tree handed to transform
  params,   \* the caller's params array (transform's traversal state aliases it)
  global,   \* the global binding: NULL, "this" or a name
  opts,     \* the enables object
  phase,    \* "init", "done" (transform was called), or the follow-up call made
  given,    \* the content of params before the first call
  out,      \* the outcome of the first call
  second,   \* the outcome of the follow-up call
  opts2,    \* the enables object of the follow-up call
  verdict   \* what ENTER answered for ast

vars == <<ast, params, global, opts, phase, given, out, second, opts2, verdict>>

None == Throw("", "", Null, <<>>, <<>>)

Init ==
  /\ \E in \in Inputs :
       /\ ast = in.ast
       /\ params = in.params
       /\ given = in.params
       /\ global = in.global
       /\ opts = in.opts
  /\ phase = "init"
  /\ out = None
  /\ second = None
  /\ opts2 = opts
  /\ verdict = "pending"

\* transform(ast, params, global, opts)
Transform ==
  /\ phase = "init"
  /\ out' = transform(ast, params, global, opts)
  /\ params' = out'.scope
  /\ phase' = "done"
  /\ UNCHANGED <<ast, global, opts, given, second, opts2, verdict>>

\* the same call once more, with the same array object
TransformAgain ==
  /\ phase = "done"
  /\ second' = transform(ast, params, global, opts)
  /\ params' = second'.scope
  /\ phase' = "again"
  /\ UNCHANGED <<ast, global, opts, given, out, opts2, verdict>>

\* transform on the tree the first call returned
Retransform ==
  /\ phase = "done"
  /\ out.ok
  /\ second' = transform(out.node, params, global, opts)
  /\ params' = second'.scope
  /\ phase' = "re"
  /\ UNCHANGED <<ast, global, opts, given, out, opts2, verdict>>

AtLeast(o2, o) == \A k \in Switches : enable(o, k) => enable(o2, k)

\* the same tree, parameter names and global under more switches
TransformWider ==
  /\ phase = "done"
  /\ \E o2 \in TotalOpts :
       /\ AtLeast(o2, opts)
       /\ opts2' = o2
       /\ second' = transform(ast, given, global, o2)
  /\ phase' = "wide"
  /\ UNCHANGED <<ast, params, global, opts, given, out, verdict>>

Next == Transform \/ TransformAgain \/ Retransform \/ TransformWider

Spec == Init /\ [][Next]_vars

\* =============================================================== properties
\* What the properties are stated with: the policy table of the
\* documentation, the nodes of a tree, lexical scoping by sets of names.

On(o, k) == k \in o.on \/ (k \notin o.off /\ k \in {"call", "arrow"})

Always == {"Identifier", "Literal", "ArrayExpression", "ObjectExpression",
           "MemberExpression", "ChainExpression", "LogicalExpression",
           "SequenceExpression", "ConditionalExpression", "TemplateLiteral",
           "Property", "ObjectPattern", "ArrayPattern", "RestElement",
           "AssignmentPattern", "SpreadElement", "TemplateElement"}

PolicyAdmits(n, o) ==
  CASE n.type \in {"UnaryExpression", "BinaryExpression"} ->
         /\ ~(n.operator = "delete" /\ ~On(o, "update"))
         /\ ~(n.operator \in {"typeof", "in", "instanceof"} /\ ~On(o, "inspect"))
    [] n.type \in {"UpdateExpression", "AssignmentExpression"} -> On(o, "update")
    [] n.type \in {"CallExpression", "NewExpression", "TaggedTemplateExpression"} ->
         On(o, "call")
    [] n.type = "ArrowFunctionExpression" -> On(o, "arrow")
    [] n.type = "ThisExpression" -> On(o, "this")
    [] OTHER -> n.type \in Always

NodeFields == {"argument", "left", "right", "callee", "object", "property", "key",
               "value", "expression", "test", "consequent", "alternate", "tag", "quasi"}

Elements(list) == { list[i] : i \in 1..Len(list) } \ {Null}

\* Every node of a tree, parameter patterns and non-computed names included.
RECURSIVE Nodes(_)
Nodes(n) ==
  {n}
  \cup UNION { Nodes(n[f]) : f \in DOMAIN n \cap NodeFields }
  \cup UNION { UNION { Nodes(e) : e \in Elements(n[f]) } : f \in DOMAIN n \cap ListKeys }
  \cup (IF n.type = "ArrowFunctionExpression"
        THEN Nodes(n.body) \cup UNION { Nodes(e) : e \in Elements(n.params) }
        ELSE {})

\* The default-value expressions of a parameter pattern.
RECURSIVE Defaults(_)
Defaults(pat) ==
  CASE pat.type = "AssignmentPattern" -> {pat.right} \cup Defaults(pat.left)
    [] pat.type = "ObjectPattern" ->
         UNION { IF e.type = "Property" THEN Defaults(e.value)
                 ELSE IF e.type = "RestElement" THEN Defaults(e.argument) ELSE {}
                 : e \in Elements(pat.properties) }
    [] pat.type = "ArrayPattern" -> UNION { Defaults(e) : e \in Elements(pat.elements) }
    [] pat.type = "RestElement" -> Defaults(pat.argument)
    [] OTHER -> {}

Range(seq) == { seq[i] : i \in 1..Len(seq) }

\* The names an arrow function's parameter patterns bind.
Bound(arrow) == Range(extractParams(arrow.params, 1, <<>>).scope)

\* The identifiers in a reference position that no enclosing binding covers;
\* with `defaults`, the default-value expressions of parameters count too.
RECURSIVE FreeRefs(_, _, _)
FreeRefs(n, bound, defaults) ==
  CASE n.type = "Identifier" -> IF n.name \in bound THEN {} ELSE {n.name}
    [] n.type = "MemberExpression" ->
         FreeRefs(n.object, bound, defaults)
         \cup (IF n.computed THEN FreeRefs(n.property, bound, defaults) ELSE {})
    [] n.type = "Property" ->
         (IF n.computed THEN FreeRefs(n.key, bound, defaults) ELSE {})
         \cup FreeRefs(n.value, bound, defaults)
    [] n.type = "ArrowFunctionExpression" ->
         IF n.body.type = "BlockStatement" THEN {}
         ELSE FreeRefs(n.body, bound \cup Bound(n), defaults)
              \cup (IF defaults
                    THEN UNION { UNION { FreeRefs(x, bound \cup Bound(n), defaults)
                                         : x \in Defaults(pat) }
                                 : pat \in Elements(n.params) }
                    ELSE {})
    [] OTHER ->
         UNION { FreeRefs(n[f], bound, defaults) : f \in DOMAIN n \cap NodeFields }
         \cup UNION { UNION { FreeRefs(e, bound, defaults) : e \in Elements(n[f]) }
                      : f \in DOMAIN n \cap ListKeys }

\* C1: whenever transform returns a tree, every node of that tree, nodes in
\* arrow parameter patterns included, is of a kind and operator the policy
\* table admits under the active switches.  (Stated for a global binding
\* other than 'this', where no node of the output is a synthesized `this`.)
C1_NoRejectedNode ==
  (phase = "done" /\ out.ok /\ global # "this")
    => \A n \in Nodes(out.node) : PolicyAdmits(n, opts)

\* C2: with no global binding, transform returns a tree only if every
\* identifier in a reference position, default-value expressions of arrow
\* parameters included, is in params or bound by an enclosing arrow function.
C2_NoFreeIdentifier ==
  (phase = "done" /\ out.ok /\ global = NULL)
    => FreeRefs(ast, Range(given), TRUE) = {}

\* The tree with every free identifier of a visited position replaced by a
\* non-computed member access on the global binding, scoping by name sets.
GlobalObject(g) == IF g = "this" THEN [type |-> "ThisExpression"]
                   ELSE [type |-> "Identifier", name |-> g]

RECURSIVE Captured(_, _, _)
Captured(n, bound, g) ==
  CASE n.type = "Identifier" ->
         IF n.name \in bound THEN n
         ELSE [type |-> "MemberExpression", object |-> GlobalObject(g),
               property |-> [type |-> "Identifier", name |-> n.name],
               computed |-> FALSE, optional |-> FALSE]
    [] n.type = "MemberExpression" ->
         [f \in DOMAIN n |->
            IF f = "object" \/ (f = "property" /\ n.computed)
            THEN Captured(n[f], bound, g) ELSE n[f]]
    [] n.type = "Property" ->
         [f \in DOMAIN n |->
            IF f = "value" \/ (f = "key" /\ n.computed)
            THEN Captured(n[f], bound, g) ELSE n[f]]
    [] n.type = "ArrowFunctionExpression" ->
         [f \in DOMAIN n |->
            IF f = "body" THEN Captured(n[f], bound \cup Bound(n), g) ELSE n[f]]
    [] OTHER ->
         [f \in DOMAIN n |->
            IF f \in NodeFields THEN Captured(n[f], bound, g)
            ELSE IF f \in ListKeys
            THEN [i \in 1..Len(n[f]) |->
                    IF n[f][i] = Null THEN Null ELSE Captured(n[f][i], bound, g)]
            ELSE n[f]]

\* C3: with a global binding g, the returned tree is the input with every
\* visited identifier outside the current scope replaced by the non-computed
\* member access g.x (this.x for 'this') and every identifier inside the
\* scope, those of params among them, left as it is.
C3_FreeIdentifiersCaptured ==
  (phase = "done" /\ out.ok /\ global # NULL)
    => out.node = Captured(ast, Range(given), global)

C3_Witness ==
  /\ phase = "done"
  /\ out.ok
  /\ global = "g"
  /\ given = <<"a", "g">>
  /\ ast = Binary("+", Id("a"), Id("b"))
  /\ out.node = Binary("+", Id("a"), Member(Id("g"), Id("b"), FALSE))

\* C4: after a call to transform, returning or throwing, the caller's params
\* list holds what it held before the call, and the same call made again has
\* the same outcome.
C4_ParamsUntouched ==
  /\ phase = "done" => params = given
  /\ phase = "again" => (second.ok = out.ok /\ second.node = out.node
                         /\ second.err.name = out.err.name
                         /\ second.err.msg = out.err.msg)

\* The nodes a successful traversal visits, each with the scope it is
\* visited under.
RECURSIVE Visited(_, _)
Visited(n, sc) ==
  {[node |-> n, scope |-> sc]} \cup
  CASE n.type = "MemberExpression" ->
         Visited(n.object, sc) \cup (IF n.computed THEN Visited(n.property, sc) ELSE {})
    [] n.type = "Property" ->
         (IF n.computed THEN Visited(n.key, sc) ELSE {}) \cup Visited(n.value, sc)
    [] n.type = "ArrowFunctionExpression" ->
         IF n.body.type = "BlockStatement" THEN {}
         ELSE Visited(n.body, extractParams(n.params, 1, sc).scope)
    [] OTHER ->
         UNION { Visited(n[f], sc) : f \in DOMAIN n \cap NodeFields }
         \cup UNION { UNION { Visited(e, sc) : e \in Elements(n[f]) }
                      : f \in DOMAIN n \cap ListKeys }

\* C5: when transform succeeds, a visited subtree comes back as the very same
\* node exactly when it holds no free identifier, and a rebuilt arrow, member
\* access or property differs from the original in its walked children only.
C5_StructuralReuse ==
  (phase = "done" /\ out.ok) =>
    /\ out.same <=> (FreeRefs(ast, Range(given), FALSE) = {})
    /\ out.same => out.node = ast
    /\ \A v \in Visited(ast, given) :
         LET r == walk(v.node, v.scope, [global |-> global, opts |-> opts])
             n == v.node
         IN /\ r.ok
            /\ r.same <=> (FreeRefs(n, Range(v.scope), FALSE) = {})
            /\ r.same => r.node = n
            /\ (~r.same /\ n.type = "ArrowFunctionExpression")
                 => [r.node EXCEPT !.body = n.body] = n
            /\ (~r.same /\ n.type = "MemberExpression")
                 => /\ [r.node EXCEPT !.object = n.object, !.property = n.property] = n
                    /\ ~n.computed => r.node.property = n.property
            /\ (~r.same /\ n.type = "Property")
                 => /\ [r.node EXCEPT !.key = n.key, !.value = n.value] = n
                    /\ ~n.computed => r.node.key = n.key

C5_Witness ==
  /\ phase = "done"
  /\ out.ok
  /\ global = "g"
  /\ given = <<"g">>
  /\ ast = Array(<<Arrow(<<Id("a")>>, Id("a")), Id("b")>>)
  /\ ~out.same
  /\ out.node.elements[1] = ast.elements[1]
  /\ out.node.elements[2] = Member(Id("g"), Id("b"), FALSE)

\* The names of ParamNames that are identifiers and not reserved words.
ValidNames == {"a", "g", "_"}
ConfigErrors == {"not a valid identifier", "duplicate parameter name",
                 "global not in parameter list"}

BadConfiguration ==
  \/ \E i \in 1..Len(given) : given[i] \notin ValidNames
  \/ \E i, j \in 1..Len(given) : i # j /\ given[i] = given[j]
  \/ (global # NULL /\ global # "this" /\ global \notin Range(given))

\* C6: transform fails with a configuration error, whatever the tree, when
\* params holds a name that is no valid non-reserved identifier or holds a
\* name twice, or when global is neither absent, 'this' nor in params; with
\* any other configuration (global 'this' and any valid params among them)
\* it raises no configuration error.
C6_ConfigurationChecked ==
  phase = "done" =>
    IF BadConfiguration
    THEN /\ ~out.ok
         /\ out.err.name = "SyntaxError"
         /\ out.err.msg \in ConfigErrors
         /\ out.err.at = Null
         /\ params = given
    ELSE out.err.msg \notin ConfigErrors

C6_Witness ==
  /\ phase = "done"
  /\ ast = Leaf("FunctionExpression")
  /\ given = <<"a", "a">>
  /\ global = "this"
  /\ out.err.msg = "duplicate parameter name"

BlockArrow(n) == n.type = "ArrowFunctionExpression" /\ n.body.type = "BlockStatement"

\* C8: an arrow function with a block body makes transform fail wherever the
\* traversal would visit it, under every configuration; the failure raised
\* for the block body is a SyntaxError thrown with the scope as it was when
\* the arrow was entered.
C8_BlockBodyRejected ==
  phase = "done" =>
    /\ (\E v \in Visited(ast, given) : BlockArrow(v.node)) => ~out.ok
    /\ BlockArrow(ast) => (~out.ok /\ out.err.name = "SyntaxError" /\ params = given)
    /\ (BlockArrow(ast) /\ ~BadConfiguration /\ On(opts, "arrow"))
         => out.err.msg = "block statement"
    /\ out.err.msg = "block statement" => BlockArrow(out.err.at)
    /\ (~out.ok /\ BlockArrow(out.err.at)) =>
         /\ out.err.name = "SyntaxError"
         /\ out.err.msg = (IF On(opts, "arrow") THEN "block statement" ELSE "disabled")
         /\ out.scope = out.err.entry

C8_Witness ==
  /\ phase = "done"
  /\ ast = Arrow(<<Id("g")>>, Arrow(<<Id("a")>>, Block))
  /\ opts = AllOn
  /\ out.err.msg = "block statement"
  /\ out.scope = given \o <<"g">>

Governing(n) ==
  CASE n.type = "ArrowFunctionExpression" -> "arrow"
    [] n.type = "ThisExpression" -> "this"
    [] n.type \in {"CallExpression", "NewExpression", "TaggedTemplateExpression"} -> "call"
    [] n.type \in {"UnaryExpression", "BinaryExpression"} /\ n.operator = "delete" -> "update"
    [] n.type \in {"UnaryExpression", "BinaryExpression"} -> "inspect"
    [] OTHER -> "update"

\* C10: a tree transform accepts under some switches is accepted, with the
\* same output, under every configuration that has at least those switches
\* on; and a node rejected because its switch is off is not rejected any
\* more once that switch is on.
C10_SwitchesMonotone ==
  phase = "wide" =>
    /\ out.ok => (second.ok /\ second.node = out.node /\ second.same = out.same)
    /\ (~out.ok /\ out.err.msg = "disabled" /\ On(opts2, Governing(out.err.at)))
         => /\ ENTER(out.err.at, opts2) = ""
            /\ ~(~second.ok /\ second.err.msg = "disabled"
                 /\ second.err.at = out.err.at)

C10_Witness ==
  /\ phase = "wide"
  /\ ast = Unary("typeof", This)
  /\ opts = [on |-> {"call", "arrow"}, off |-> {"this", "update", "inspect"}]
  /\ opts2 = [on |-> {"call", "arrow", "inspect"}, off |-> {"this", "update"}]
  /\ out.err.at = ast
  /\ second.err.at = This

\* ------------------------------------------------- the policy table alone
\* One node of every kind ENTER names, of kinds it does not name, and of
\* every operator it asks for, under every options object.
UnaryOps == {"-", "!", "void", "delete", "typeof"}
BinaryOps == {"+", "===", "in", "instanceof"}

Probes ==
  { Id("a"), Lit, This, Array(<<Lit>>), Object(<<>>), Member(Lit, Id("b"), FALSE),
    [type |-> "ChainExpression", expression |-> Lit],
    [type |-> "LogicalExpression", operator |-> "&&", left |-> Lit, right |-> Lit],
    [type |-> "SequenceExpression", expressions |-> <<Lit, Lit>>],
    [type |-> "ConditionalExpression", test |-> Lit, consequent |-> Lit, alternate |-> Lit],
    [type |-> "TemplateLiteral", quasis |-> <<Leaf("TemplateElement")>>, expressions |-> <<>>],
    Arrow(<<>>, Lit), Arrow(<<>>, Block),
    Update("++", Lit), Update("--", Lit), Assign("=", Lit, Lit), Assign("+=", Lit, Lit),
    Call(Lit, <<>>), [type |-> "NewExpression", callee |-> Lit, arguments |-> <<>>],
    [type |-> "TaggedTemplateExpression", tag |-> Lit, quasi |-> Lit],
    Prop(Lit, Lit, FALSE), ObjectPattern(<<>>), ArrayPattern(<<>>), RestElement(Lit),
    AssignmentPattern(Lit, Lit), [type |-> "SpreadElement", argument |-> Lit] }
  \cup { Unary(op, Lit) : op \in UnaryOps }
  \cup { Binary(op, Lit, Lit) : op \in BinaryOps }
  \cup { Leaf(t) : t \in {"TemplateElement", "FunctionExpression", "ClassExpression",
                          "MetaProperty", "YieldExpression", "AwaitExpression",
                          "ImportExpression", "BlockStatement", "Super",
                          "PrivateIdentifier", "Program", "ExpressionStatement"} }

InitPolicy ==
  /\ ast \in Probes
  /\ opts \in AnyOpts
  /\ params = <<>>
  /\ given = <<>>
  /\ global = NULL
  /\ phase = "init"
  /\ out = None
  /\ second = None
  /\ opts2 = opts
  /\ verdict = "pending"

\* [ENTER](node)
Enter ==
  /\ phase = "init"
  /\ verdict' = ENTER(ast, opts)
  /\ phase' = "entered"
  /\ UNCHANGED <<ast, params, global, opts, given, out, second, opts2>>

NextPolicy == Enter

SpecPolicy == InitPolicy /\ [][NextPolicy]_vars

\* C7: for every node kind, operator and options object (an omitted switch
\* counting as on for call and arrow, off for this, update and inspect), the
\* node is admitted on entry exactly when the policy table admits it.
C7_AdmissionIsPolicyTable ==
  phase = "entered" => ((verdict = "") <=> PolicyAdmits(ast, opts))

C7_Witness ==
  /\ phase = "entered"
  /\ ast = Unary("delete", Lit)
  /\ opts = [on |-> {"update"}, off |-> {"call"}]
  /\ verdict = ""

\* C11: an arrow function whose handling returns leaves the scope list
\* exactly as it was on entry, however the arrows nest; so whenever the
\* traversal stops at a node, the scope it holds there is params followed by
\* the names of the arrows enclosing that node and of no other arrow.
C11_ScopeRestored ==
  (phase = "done" /\ ~BadConfiguration) =>
    /\ out.ok => params = given
    /\ \A v \in Visited(ast, given) :
         v.node.type = "ArrowFunctionExpression" =>
           LET r == walk(v.node, v.scope, [global |-> global, opts |-> opts])
           IN r.ok => r.scope = v.scope
    /\ ~out.ok => \E v \in Visited(ast, given) :
                    v.node = out.err.at /\ v.scope = out.err.entry

C11_Witness ==
  /\ phase = "done"
  /\ given = <<"a">>
  /\ global = NULL
  /\ ast = Array(<<Arrow(<<Id("a"), RestElement(Id("b"))>>, Id("b")), Id("b")>>)
  /\ out.err.name = "ReferenceError"
  /\ out.err.at = Id("b")
  /\ out.err.entry = <<"a">>
  /\ params = given

\* --------------------------------------------------------- the binding scan
\* extractDeclaration on its own: a pattern is scanned into a scope list.
PatternLeaves == {Id("a"), Id("b"), Lit}

WrapPattern(x) ==
  { RestElement(x),
    AssignmentPattern(x, Id("c")),
    ArrayPattern(<<Null, x>>),
    ArrayPattern(<<x, Id("b")>>),
    ObjectPattern(<<Prop(Id("c"), x, FALSE), RestElement(Id("b"))>>),
    ObjectPattern(<<RestElement(x), Lit>>),
    ObjectPattern(<<Lit, Prop(Id("c"), x, FALSE)>>) }

RECURSIVE Patterns(_)
Patterns(d) ==
  IF d = 0 THEN PatternLeaves
  ELSE PatternLeaves \cup UNION { WrapPattern(x) : x \in Patterns(d - 1) }

InitScan ==
  /\ ast \in Patterns(MaxDepth) \cup {ComplexPattern}
  /\ params \in {<<>>, <<"a">>}
  /\ given = params
  /\ global = NULL
  /\ opts = NoOpts
  /\ phase = "init"
  /\ out = None
  /\ second = None
  /\ opts2 = opts
  /\ verdict = "pending"

\* extractDeclaration(pattern, scope)
Scan ==
  /\ phase = "init"
  /\ LET r == extractDeclaration(ast, params)
     IN /\ params' = r.scope
        /\ out' = IF r.ok THEN Ok(ast, TRUE, r.scope)
                  ELSE Throw(r.name, r.msg, ast, params, r.scope)
  /\ phase' = "scanned"
  /\ UNCHANGED <<ast, global, opts, given, second, opts2, verdict>>

NextScan == Scan

SpecScan == InitScan /\ [][NextScan]_vars

\* The binding positions of a pattern, left to right: a name for each binding
\* occurrence, a mark for each position that holds no pattern.
RECURSIVE Flatten(_)
RECURSIVE FlattenAll(_, _)
NotAPattern == "<Error>"
NotAnEntry == "<SyntaxError>"

FlattenEntry(e) ==
  CASE e.type = "Property" -> Flatten(e.value)
    [] e.type = "RestElement" -> Flatten(e.argument)
    [] OTHER -> <<NotAnEntry>>

FlattenAll(list, inObject) ==
  IF list = <<>> THEN <<>>
  ELSE (IF inObject THEN FlattenEntry(Head(list))
        ELSE IF Head(list) = Null THEN <<>> ELSE Flatten(Head(list)))
       \o FlattenAll(Tail(list), inObject)

Flatten(p) ==
  CASE p.type = "Identifier" -> <<p.name>>
    [] p.type = "ObjectPattern" -> FlattenAll(p.properties, TRUE)
    [] p.type = "ArrayPattern" -> FlattenAll(p.elements, FALSE)
    [] p.type = "RestElement" -> Flatten(p.argument)
    [] p.type = "AssignmentPattern" -> Flatten(p.left)
    [] OTHER -> <<NotAPattern>>

Marks == {NotAPattern, NotAnEntry}

\* the index of the first mark, or one past the end
FirstMark(f) ==
  Min({ i \in 1..Len(f) : f[i] \in Marks } \cup {Len(f) + 1})

\* C12: the scan appends exactly the names the pattern binds, once per
\* binding occurrence and left to right (values and rest targets of an object
\* pattern, never keys; present elements of an array pattern; the target of a
\* rest capture; the left side of a default); it fails at the first position
\* that holds any other kind; ({a: {a: [, a], ...c}, c: b = 2}) appends a, c, b.
C12_ScanAppendsBoundNames ==
  phase = "scanned" =>
    LET f == Flatten(ast)
        k == FirstMark(f)
    IN /\ params = given \o SubSeq(f, 1, k - 1)
       /\ out.ok <=> k > Len(f)
       /\ ~out.ok => out.err.name = (IF f[k] = NotAnEntry THEN "SyntaxError" ELSE "Error")
       /\ ast = ComplexPattern => (out.ok /\ params = given \o <<"a", "c", "b">>)

C12_Witness ==
  /\ phase = "scanned"
  /\ ast = ComplexPattern
  /\ given = <<"a">>
  /\ out.ok
  /\ params = <<"a", "a", "c", "b">>

\* The outcome of walking first and then, if that returned, next: the first
\* failure, or both results.
Both(first, next) ==
  IF ~first.ok THEN [ok |-> FALSE, err |-> first.err, first |-> Null, next |-> Null]
  ELSE IF ~next.ok THEN [ok |-> FALSE, err |-> next.err, first |-> Null, next |-> Null]
  ELSE [ok |-> TRUE, err |-> NoErr, first |-> first.node, next |-> next.node]

\* a name or any other node that is left where it stands
Kept(node) == Ok(node, TRUE, <<>>)

\* C13: a non-computed name is never an identifier reference. A member
\* access o.p succeeds or fails exactly as the walk of o does and keeps p as
\* it stands; o[p] walks o and then p and holds both results. Likewise an
\* object entry keeps a non-computed key, walks a computed one, and always
\* walks its value.
C13_NameNotReference ==
  phase = "done" =>
    \A v \in Visited(ast, given) :
      LET n == v.node
          cx == [global |-> global, opts |-> opts]
          r == walk(n, v.scope, cx)
      IN /\ ( /\ n.type = "MemberExpression"
              /\ ENTER(n, opts) = ""
              /\ n.object.type # "Super"
              /\ n.property.type # "PrivateIdentifier" ) =>
              LET e == Both(walk(n.object, v.scope, cx),
                            IF n.computed THEN walk(n.property, v.scope, cx)
                            ELSE Kept(n.property))
              IN /\ r.ok <=> e.ok
                 /\ r.ok => (r.node.object = e.first /\ r.node.property = e.next)
                 /\ ~r.ok => r.err = e.err
         /\ ( /\ n.type = "Property"
              /\ ENTER(n, opts) = ""
              /\ n.key.type # "PrivateIdentifier" ) =>
              LET e == Both(IF n.computed THEN walk(n.key, v.scope, cx)
                            ELSE Kept(n.key),
                            walk(n.value, v.scope, cx))
              IN /\ r.ok <=> e.ok
                 /\ r.ok => (r.node.key = e.first /\ r.node.value = e.next)
                 /\ ~r.ok => r.err = e.err

C13_Witness ==
  /\ phase = "done"
  /\ global = NULL
  /\ given = <<"a">>
  /\ ast = Member(Member(Id("a"), Id("a"), TRUE), Id("b"), FALSE)
  /\ out.ok
  /\ out.node = ast

\* C14: every global access synthesized for a free identifier denotes the
\* top-level parameter named by global: no identifier that is rewritten to an
\* access on the name global stands inside an arrow whose parameters bind
\* that name.
C14_GlobalNotShadowed ==
  (phase = "done" /\ out.ok /\ global \notin {NULL, "this"}) =>
    \A v \in Visited(ast, given) :
      LET r == walk(v.node, v.scope, [global |-> global, opts |-> opts])
          enclosing == SubSeq(v.scope, Len(given) + 1, Len(v.scope))
      IN ( /\ v.node.type = "Identifier"
           /\ r.ok
           /\ r.node.type = "MemberExpression"
           /\ r.node.object = Id(global) ) => ~includes(enclosing, global)

====
